---- MODULE Spec2Model ----
(***************************************************************************)
(* Model of the pulse-backend order pipeline: the splitting planner        *)
(* (pulse/splitting.py), the splitting worker, the execution worker, the   *)
(* timeout monitor and the cancellation handler (pulse/workers/*.py) over  *)
(* the store (pulse/repositories/*.py, alembic/versions/17686746*.py).     *)
(*                                                                         *)
(* Every `await` of a worker (one store statement or one broker call) is   *)
(* one step.  No statement of the workers runs inside an explicit          *)
(* transaction except the batch insert of slices, so each statement        *)
(* commits on its own (asyncpg auto-commit) and row locks taken by         *)
(* SELECT ... FOR UPDATE SKIP LOCKED end with the statement.               *)
(*                                                                         *)
(* Time: instants are stored relative to the current instant, so           *)
(* scheduled_at, executor_claimed_at and executor_timeout_at hold          *)
(* (value - now) and Tick moves them down by one; values that no           *)
(* comparison can tell apart any more are kept at a floor, the floor of    *)
(* executor_claimed_at below the floor of executor_timeout_at.             *)
(***************************************************************************)
EXTENDS Integers, Sequences, FiniteSets, TLC

\* ------------------------------------------------------------------ bounds
Lease == 1            \* executor_timeout_minutes, in ticks
MaxAttempts == 2      \* max_placement_attempts
BatchSize == 2        \* batch_size of both workers
SliceQty == 2         \* quantity of every slice of the execution model
MaxCancels == 1       \* invocations of handle_order_cancellation

Workers == {"w1", "w2"}       \* execution workers (executor_id)
Slices == {1}                 \* slice ids of the order of the execution model
TheOrder == "ord1"            \* that order

Null == "NULL"
None == -1                    \* an integer argument left out (Python None)

VARIABLES
    order_slices,     \* table order_slices: id -> row
    executions,       \* table order_slice_executions: id -> row
    broker_events,    \* table order_slice_broker_events: execution id -> rows in insertion order
    worker,           \* execution workers: position and locals of run_execution_worker
    monitor,          \* timeout monitor: position and locals
    canceller,        \* cancellation handler: position and locals
    nOps,             \* observation: store writes and broker calls made by worker w for slice s
    calls,            \* observation: broker place calls made by worker w for slice s
    lost,             \* observation: <<w, s>> whose ownership verification has failed
    orders,           \* table orders: id -> row
    splitter,         \* splitting workers: position and locals of run_splitting_worker
    plan,             \* one call of calculate_split_schedule: arguments and result
    api               \* requests to POST /internal/orders: position and locals of create_order

execVars == <<order_slices, executions, broker_events, worker, monitor, canceller,
              nOps, calls, lost>>

\* what the execution stage never touches
splitVars == <<orders, splitter, plan, api>>

vars == <<execVars, splitVars>>

\* ------------------------------------------------------------------ store
TerminalBroker == {"COMPLETE", "CANCELLED", "REJECTED", "EXPIRED"}

\* CHECK (execution_result IS NULL OR execution_result IN (...))
AllowedResults == {"SUCCESS", "PARTIAL_SUCCESS", "BROKER_REJECTED",
                   "VALIDATION_FAILED", "EXECUTOR_TIMEOUT"}

ExecId(w, s) == <<w, s>>      \* generate_execution_id(): fresh per process_single_slice call

Min(a, b) == IF a < b THEN a ELSE b

\* slice_id VARCHAR(64) NOT NULL UNIQUE: an insert for slice s is refused
UniqueSliceIdViolated_NoConstraint(s) == FALSE

UniqueSliceIdViolated(s) ==
    \E e \in DOMAIN executions : executions[e].slice_id = s

\* UPDATE order_slices SET status = $2 [, filled_quantity = ..] WHERE id = $1
SliceUpdated(s, status, filled) ==
    [order_slices EXCEPT ![s] =
        [@ EXCEPT !.status = status,
                  !.filled_quantity = IF filled = None THEN @ ELSE filled]]

\* UPDATE order_slice_executions SET execution_status = $2 [, ...] WHERE id = $1
\* (arguments left out keep the column; no row with that id: nothing changes)
ExecutionUpdated(e, status, boid, bstatus, filled, result, ecode) ==
    IF e \notin DOMAIN executions THEN executions
    ELSE [executions EXCEPT ![e] =
            [@ EXCEPT !.execution_status = status,
                      !.broker_order_id = IF boid = Null THEN @ ELSE boid,
                      !.broker_order_status = IF bstatus = Null THEN @ ELSE bstatus,
                      !.filled_quantity = IF filled = None THEN @ ELSE filled,
                      !.execution_result = IF result = Null THEN @ ELSE result,
                      !.error_code = IF ecode = Null THEN @ ELSE ecode]]

Bump(f, w, s) == [f EXCEPT ![w][s] = @ + 1]

\* ------------------------------------------------------------------ broker
\* what zerodha_client.place_order can do: answer, or raise an exception whose text
\* has a network keyword ("network"), the word 'invalid' or 'validation' ("invalid"),
\* both ("network_invalid"), or neither ("rejected")
PlaceOutcomes_Overfill ==
    { [kind |-> "ok", status |-> "COMPLETE", filled |-> SliceQty + 1],
      [kind |-> "ok", status |-> "OPEN", filled |-> 0],
      [kind |-> "network", status |-> Null, filled |-> 0],
      [kind |-> "rejected", status |-> Null, filled |-> 0] }

PlaceOutcomes ==
    { [kind |-> "ok", status |-> "COMPLETE", filled |-> SliceQty],
      [kind |-> "ok", status |-> "COMPLETE", filled |-> SliceQty - 1],
      [kind |-> "ok", status |-> "OPEN", filled |-> 0],
      [kind |-> "ok", status |-> "REJECTED", filled |-> 0],
      [kind |-> "ok", status |-> "CANCELLED", filled |-> 0],
      [kind |-> "ok", status |-> "EXPIRED", filled |-> SliceQty - 1],
      [kind |-> "network", status |-> Null, filled |-> 0],
      [kind |-> "rejected", status |-> Null, filled |-> 0],
      [kind |-> "invalid", status |-> Null, filled |-> 0],
      [kind |-> "network_invalid", status |-> Null, filled |-> 0] }

NoResp == [kind |-> "none", status |-> Null, filled |-> 0]

\* ------------------------------------------------------------------ execution worker
IdleWorker == [pc |-> "idle", batch |-> <<>>, attempt |-> 1, resp |-> NoResp,
               err |-> "none", event_sequence |-> 0, alive |-> TRUE]

Cur(w) == Head(worker[w].batch)

\* the due PENDING slices in scheduled_at order (ids ascend with scheduled_at)
RECURSIVE SortedSeq(_)
SortedSeq(S) ==
    IF S = {} THEN <<>>
    ELSE LET m == CHOOSE x \in S : \A y \in S : x <= y
         IN <<m>> \o SortedSeq(S \ {m})

Take(seq, n) == SubSeq(seq, 1, Min(n, Len(seq)))

\* get_pending_slices without the condition on scheduled_at
PendingDue_Any ==
    {s \in DOMAIN order_slices : order_slices[s].status = "PENDING"}

\* WHERE status = 'PENDING' AND scheduled_at <= now
PendingDue ==
    {s \in DOMAIN order_slices :
        order_slices[s].status = "PENDING" /\ order_slices[s].scheduled_at <= 0}

\* get_pending_slices: the statement runs in its own implicit transaction, so its
\* row locks are gone when it returns; the caller keeps only the rows it read
get_pending_slices(w) ==
    /\ worker[w].alive /\ worker[w].pc = "idle"
    /\ PendingDue # {}
    /\ worker' = [worker EXCEPT ![w] =
            [IdleWorker EXCEPT !.batch = Take(SortedSeq(PendingDue), BatchSize),
                               !.pc = "set_executing"]]
    /\ UNCHANGED <<splitVars, order_slices, executions, broker_events, monitor, canceller,
                   nOps, calls, lost>>

\* process_single_slice returned: the for loop takes the next slice of the batch
Returned(w) ==
    [IdleWorker EXCEPT !.batch = Tail(worker[w].batch),
                       !.pc = IF Len(worker[w].batch) > 1 THEN "set_executing" ELSE "idle"]

\* Step 1: update_slice_status(slice_id, 'EXECUTING')
set_executing(w) ==
    /\ worker[w].alive /\ worker[w].pc = "set_executing"
    /\ order_slices' = SliceUpdated(Cur(w), "EXECUTING", None)
    /\ nOps' = Bump(nOps, w, Cur(w))
    /\ worker' = [worker EXCEPT ![w].pc = "create_execution"]
    /\ UNCHANGED <<splitVars, executions, broker_events, monitor, canceller, calls, lost>>

\* a lease that ends when it starts
TimeoutAt_NoLease(now) == now

\* create_execution and update_heartbeat: now + timedelta(minutes=timeout_minutes)
TimeoutAt(now) == now + Lease

\* Step 3: the validation that follows the claim
ValidationError(s) ==
    IF order_slices[s].quantity <= 0 THEN "invalid"        \* "Invalid quantity"
    ELSE IF order_slices[s].order_type = "LIMIT" /\ ~order_slices[s].has_limit_price
         THEN "other"                                      \* "Limit price required for LIMIT orders"
         ELSE "none"

\* Step 2 and 3: exec_repo.create_execution, then validation
create_execution(w) ==
    /\ worker[w].alive /\ worker[w].pc = "create_execution"
    /\ IF UniqueSliceIdViolated(Cur(w))
       THEN \* asyncpg.UniqueViolationError -> except Exception
            /\ worker' = [worker EXCEPT ![w].pc = "err_exec", ![w].err = "other"]
            /\ UNCHANGED <<executions, nOps>>
       ELSE /\ executions' = executions @@ (ExecId(w, Cur(w)) :>
                    [slice_id |-> Cur(w), executor_id |-> w,
                     executor_claimed_at |-> 0,
                     executor_timeout_at |-> TimeoutAt(0),
                     execution_status |-> "CLAIMED",
                     broker_order_id |-> Null, broker_order_status |-> Null,
                     filled_quantity |-> 0, execution_result |-> Null,
                     error_code |-> Null])
            /\ nOps' = Bump(nOps, w, Cur(w))
            /\ worker' = [worker EXCEPT
                    ![w].pc = IF ValidationError(Cur(w)) = "none" THEN "verify" ELSE "err_exec",
                    ![w].err = ValidationError(Cur(w))]
    /\ UNCHANGED <<splitVars, order_slices, broker_events, monitor, canceller, calls, lost>>

\* verify_ownership: the row exists, executor_id matches, executor_timeout_at >= now
OwnershipHeld(e, w) ==
    /\ e \in DOMAIN executions
    /\ executions[e].executor_id = w
    /\ ~(executions[e].executor_timeout_at < 0)

\* where place_order_with_retry goes when verify_ownership returns False:
\* return None -> process_single_slice returns False
AfterOwnershipLost_KeepGoing == "place"

AfterOwnershipLost == "return"

\* verify_ownership inside place_order_with_retry; on success update_heartbeat
verify_ownership(w) ==
    /\ worker[w].alive /\ worker[w].pc = "verify"
    /\ LET e == ExecId(w, Cur(w)) IN
       IF OwnershipHeld(e, w)
       THEN /\ executions' = [executions EXCEPT ![e].executor_timeout_at = TimeoutAt(0)]
            /\ nOps' = Bump(nOps, w, Cur(w))
            /\ worker' = [worker EXCEPT ![w].pc = "place"]
            /\ UNCHANGED lost
       ELSE /\ lost' = lost \cup {<<w, Cur(w)>>}
            /\ worker' = IF AfterOwnershipLost = "return"
                         THEN [worker EXCEPT ![w] = Returned(w)]
                         ELSE [worker EXCEPT ![w].pc = AfterOwnershipLost]
            /\ UNCHANGED <<executions, nOps>>
    /\ UNCHANGED <<splitVars, order_slices, broker_events, monitor, canceller, calls>>

\* zerodha_client.place_order
place_order(w) ==
    /\ worker[w].alive /\ worker[w].pc = "place"
    /\ \E r \in PlaceOutcomes :
        worker' = [worker EXCEPT ![w].resp = r, ![w].pc = "record_place",
                                 ![w].event_sequence = @ + 1]
    /\ nOps' = Bump(nOps, w, Cur(w))
    /\ calls' = Bump(calls, w, Cur(w))
    /\ UNCHANGED <<splitVars, order_slices, executions, broker_events, monitor, canceller, lost>>

\* UNIQUE (execution_id, event_sequence)
EventSequenceTaken(e, n) ==
    \E i \in 1..Len(broker_events[e]) : broker_events[e][i].event_sequence = n

\* is_network_error: a keyword of a network failure is in the text of the exception
IsNetworkError(r) == r.kind \in {"network", "network_invalid"}

\* the except clause of process_single_slice: 'validation' or 'invalid' is in the text
SaysInvalid(r) == r.kind \in {"invalid", "network_invalid"}

\* event_repo.create_broker_event for the PLACE_ORDER attempt, then the branch on its outcome
record_place(w) ==
    /\ worker[w].alive /\ worker[w].pc = "record_place"
    /\ LET e == ExecId(w, Cur(w))
           r == worker[w].resp
       IN IF EventSequenceTaken(e, worker[w].event_sequence)
          THEN /\ worker' = [worker EXCEPT ![w].pc = "err_exec", ![w].err = "other"]
               /\ UNCHANGED <<broker_events, nOps>>
          ELSE /\ broker_events' = [broker_events EXCEPT ![e] = Append(@,
                        [event_sequence |-> worker[w].event_sequence,
                         event_type |-> "PLACE_ORDER",
                         attempt_number |-> worker[w].attempt,
                         is_success |-> (r.kind = "ok"),
                         error_code |-> CASE r.kind = "ok" -> Null
                                          [] IsNetworkError(r) -> "NETWORK_FAILURE"
                                          [] OTHER -> "BROKER_REJECTED"])]
               /\ nOps' = Bump(nOps, w, Cur(w))
               /\ worker' =
                    CASE r.kind = "ok" -> [worker EXCEPT ![w].pc = "mark_placed"]
                      [] IsNetworkError(r) /\ worker[w].attempt < MaxAttempts ->
                            \* asyncio.sleep(5), next attempt
                            [worker EXCEPT ![w].pc = "verify", ![w].attempt = @ + 1]
                      [] OTHER -> \* raise: the except clause sees the same text
                            [worker EXCEPT ![w].pc = "err_exec",
                                           ![w].err = IF SaysInvalid(r) THEN "invalid"
                                                      ELSE "other"]
    /\ UNCHANGED <<splitVars, order_slices, executions, monitor, canceller, calls, lost>>

\* Step 6: the result of a final broker response
ExecutionResult(r, quantity) ==
    CASE r.status = "COMPLETE" ->
            IF r.filled = quantity THEN "SUCCESS" ELSE "PARTIAL_SUCCESS"
      [] r.status = "REJECTED" -> "BROKER_REJECTED"
      [] r.status = "CANCELLED" -> "CANCELLED"
      [] r.status = "EXPIRED" -> "TIMEOUT"
      [] OTHER -> "PARTIAL_SUCCESS"

\* update_execution_status('PLACED', ...) after placement.  A non-terminal broker
\* status then enters monitor_order_until_complete, whose first statement uses
\* timedelta, a name the module never imports: NameError before any poll.
mark_placed(w) ==
    /\ worker[w].alive /\ worker[w].pc = "mark_placed"
    /\ LET e == ExecId(w, Cur(w))
           r == worker[w].resp
       IN /\ executions' = ExecutionUpdated(e, "PLACED", "boid", r.status, r.filled, Null, Null)
          /\ nOps' = Bump(nOps, w, Cur(w))
          /\ worker' = IF r.status \in TerminalBroker
                       THEN [worker EXCEPT ![w].pc = "finalize_exec"]
                       ELSE [worker EXCEPT ![w].pc = "err_exec", ![w].err = "other"]
    /\ UNCHANGED <<splitVars, order_slices, broker_events, monitor, canceller, calls, lost>>

\* Step 7: update_execution_status('COMPLETED', ..., execution_result)
finalize_exec(w) ==
    /\ worker[w].alive /\ worker[w].pc = "finalize_exec"
    /\ LET e == ExecId(w, Cur(w))
           r == worker[w].resp
           res == ExecutionResult(r, order_slices[Cur(w)].quantity)
       IN IF res \in AllowedResults \/ e \notin DOMAIN executions
          THEN /\ executions' = ExecutionUpdated(e, "COMPLETED", Null, r.status, r.filled, res, Null)
               /\ nOps' = Bump(nOps, w, Cur(w))
               /\ worker' = [worker EXCEPT ![w].pc = "finalize_slice"]
          ELSE \* the CHECK on execution_result refuses the update
               /\ worker' = [worker EXCEPT ![w].pc = "err_exec", ![w].err = "other"]
               /\ UNCHANGED <<executions, nOps>>
    /\ UNCHANGED <<splitVars, order_slices, broker_events, monitor, canceller, calls, lost>>

\* Step 8: update_slice_status('COMPLETED', filled_quantity, average_price)
finalize_slice(w) ==
    /\ worker[w].alive /\ worker[w].pc = "finalize_slice"
    /\ order_slices' = SliceUpdated(Cur(w), "COMPLETED", worker[w].resp.filled)
    /\ nOps' = Bump(nOps, w, Cur(w))
    /\ worker' = [worker EXCEPT ![w] = Returned(w)]
    /\ UNCHANGED <<splitVars, executions, broker_events, monitor, canceller, calls, lost>>

\* except Exception: update_execution_status('COMPLETED', execution_result, 'EXECUTION_FAILED')
err_exec(w) ==
    /\ worker[w].alive /\ worker[w].pc = "err_exec"
    /\ LET e == ExecId(w, Cur(w))
           res == IF worker[w].err = "invalid" THEN "VALIDATION_FAILED" ELSE "BROKER_REJECTED"
       IN /\ executions' = ExecutionUpdated(e, "COMPLETED", Null, Null, None, res, "EXECUTION_FAILED")
          /\ nOps' = IF e \in DOMAIN executions THEN Bump(nOps, w, Cur(w)) ELSE nOps
    /\ worker' = [worker EXCEPT ![w].pc = "err_slice"]
    /\ UNCHANGED <<splitVars, order_slices, broker_events, monitor, canceller, calls, lost>>

\* except Exception: update_slice_status(slice_id, 'COMPLETED')
err_slice(w) ==
    /\ worker[w].alive /\ worker[w].pc = "err_slice"
    /\ order_slices' = SliceUpdated(Cur(w), "COMPLETED", None)
    /\ nOps' = Bump(nOps, w, Cur(w))
    /\ worker' = [worker EXCEPT ![w] = Returned(w)]
    /\ UNCHANGED <<splitVars, executions, broker_events, monitor, canceller, calls, lost>>

WorkerStep(w) ==
    \/ get_pending_slices(w)
    \/ set_executing(w)
    \/ create_execution(w)
    \/ verify_ownership(w)
    \/ place_order(w)
    \/ record_place(w)
    \/ mark_placed(w)
    \/ finalize_exec(w)
    \/ finalize_slice(w)
    \/ err_exec(w)
    \/ err_slice(w)

\* ------------------------------------------------------------------ timeout monitor
RECURSIVE SetToSeq(_)
SetToSeq(S) ==
    IF S = {} THEN <<>>
    ELSE LET x == CHOOSE y \in S : TRUE IN <<x>> \o SetToSeq(S \ {x})

\* find_timed_out_executions: execution_status IN ('CLAIMED','PLACED') AND executor_timeout_at < now
TimedOut_AnyStatus ==
    {e \in DOMAIN executions : executions[e].executor_timeout_at < 0}

TimedOut ==
    {e \in DOMAIN executions :
        /\ executions[e].execution_status \in {"CLAIMED", "PLACED"}
        /\ executions[e].executor_timeout_at < 0}

find_timed_out_executions ==
    /\ monitor.pc = "idle"
    /\ TimedOut # {}
    /\ monitor' = [pc |-> "update_exec",
                   todo |-> SetToSeq({[id |-> e, slice_id |-> executions[e].slice_id,
                                       filled_quantity |-> executions[e].filled_quantity]
                                      : e \in TimedOut})]
    /\ UNCHANGED <<splitVars, order_slices, executions, broker_events, worker, canceller,
                   nOps, calls, lost>>

\* recover_timed_out_executions: update_execution_status('COMPLETED', 'EXECUTOR_TIMEOUT')
mon_update_exec ==
    /\ monitor.pc = "update_exec"
    /\ executions' = ExecutionUpdated(Head(monitor.todo).id, "COMPLETED", Null, Null, None,
                                      "EXECUTOR_TIMEOUT", "EXECUTOR_TIMEOUT")
    /\ monitor' = [monitor EXCEPT !.pc = "update_slice"]
    /\ UNCHANGED <<splitVars, order_slices, broker_events, worker, canceller, nOps, calls, lost>>

\* recover_timed_out_executions: UPDATE order_slices SET status = 'COMPLETED',
\* filled_quantity = <the value read by find_timed_out_executions>
mon_update_slice ==
    /\ monitor.pc = "update_slice"
    /\ order_slices' = SliceUpdated(Head(monitor.todo).slice_id, "COMPLETED",
                                    Head(monitor.todo).filled_quantity)
    /\ monitor' = [pc |-> IF Len(monitor.todo) > 1 THEN "update_exec" ELSE "idle",
                   todo |-> Tail(monitor.todo)]
    /\ UNCHANGED <<splitVars, executions, broker_events, worker, canceller, nOps, calls, lost>>

MonitorStep ==
    \/ find_timed_out_executions
    \/ mon_update_exec
    \/ mon_update_slice

\* ------------------------------------------------------------------ cancellation handler
IdleCanceller(runs) ==
    [pc |-> "idle", todo |-> <<>>, execution |-> Null, event_sequence |-> 0,
     cancel_ok |-> FALSE, runs |-> runs]

\* after one slice: the for loop goes on, or the handler returns
CancellerNext ==
    [IdleCanceller(canceller.runs) EXCEPT
        !.todo = Tail(canceller.todo),
        !.pc = IF Len(canceller.todo) > 1 THEN "slice" ELSE "idle"]

\* the statuses Step 1 selects: status IN ('PENDING', 'EXECUTING')
CancellableStatuses_Any == {"PENDING", "EXECUTING", "COMPLETED", "SKIPPED"}

CancellableStatuses == {"PENDING", "EXECUTING"}

\* Step 1: SELECT * FROM order_slices WHERE order_id = $1 AND status IN ('PENDING','EXECUTING')
can_select_slices ==
    /\ canceller.pc = "idle"
    /\ canceller.runs < MaxCancels
    /\ LET found == {s \in DOMAIN order_slices :
                        /\ order_slices[s].order_id = TheOrder
                        /\ order_slices[s].status \in CancellableStatuses}
           rows == [i \in 1..Cardinality(found) |->
                        [id |-> SortedSeq(found)[i],
                         status |-> order_slices[SortedSeq(found)[i]].status]]
       IN canceller' = [IdleCanceller(canceller.runs + 1) EXCEPT
                            !.todo = rows,
                            !.pc = IF found = {} THEN "idle" ELSE "slice"]
    /\ UNCHANGED <<splitVars, order_slices, executions, broker_events, worker, monitor,
                   nOps, calls, lost>>

\* a slice read as PENDING: UPDATE order_slices SET status = 'SKIPPED'
can_skip_pending ==
    /\ canceller.pc = "slice"
    /\ Head(canceller.todo).status = "PENDING"
    /\ order_slices' = SliceUpdated(Head(canceller.todo).id, "SKIPPED", None)
    /\ canceller' = CancellerNext
    /\ UNCHANGED <<splitVars, executions, broker_events, worker, monitor, nOps, calls, lost>>

\* a slice read as EXECUTING: exec_repo.get_execution_by_slice_id
can_get_execution ==
    /\ canceller.pc = "slice"
    /\ Head(canceller.todo).status = "EXECUTING"
    /\ LET s == Head(canceller.todo).id
           found == {e \in DOMAIN executions : executions[e].slice_id = s}
       IN IF found = {}
          THEN canceller' = [canceller EXCEPT !.pc = "skip_slice"]
          ELSE LET e == CHOOSE x \in found : TRUE IN
               canceller' = [canceller EXCEPT
                    !.execution = e,
                    !.pc = IF executions[e].broker_order_id # Null
                           THEN "next_sequence" ELSE "skip_exec"]
    /\ UNCHANGED <<splitVars, order_slices, executions, broker_events, worker, monitor,
                   nOps, calls, lost>>

\* SELECT COALESCE(MAX(event_sequence), 0) + 1 FROM order_slice_broker_events
MaxEventSequence_Zero(e) == 0

MaxEventSequence_PlusOne(e) == Len(broker_events[e]) + 1

MaxEventSequence(e) ==
    IF broker_events[e] = <<>> THEN 0
    ELSE LET S == {broker_events[e][i].event_sequence : i \in 1..Len(broker_events[e])}
         IN CHOOSE m \in S : \A n \in S : n <= m

can_next_sequence ==
    /\ canceller.pc = "next_sequence"
    /\ canceller' = [canceller EXCEPT
            !.event_sequence = MaxEventSequence(canceller.execution) + 1,
            !.pc = "cancel"]
    /\ UNCHANGED <<splitVars, order_slices, executions, broker_events, worker, monitor,
                   nOps, calls, lost>>

\* zerodha_client.cancel_order: answers or raises
can_cancel_order ==
    /\ canceller.pc = "cancel"
    /\ \E ok \in BOOLEAN :
        canceller' = [canceller EXCEPT !.cancel_ok = ok, !.pc = "record"]
    /\ UNCHANGED <<splitVars, order_slices, executions, broker_events, worker, monitor,
                   nOps, calls, lost>>

\* event_repo.create_broker_event for the CANCEL_REQUEST (a refused insert leaves the handler)
can_record ==
    /\ canceller.pc = "record"
    /\ LET e == canceller.execution IN
       IF EventSequenceTaken(e, canceller.event_sequence)
       THEN /\ canceller' = IdleCanceller(canceller.runs)
            /\ UNCHANGED broker_events
       ELSE /\ broker_events' = [broker_events EXCEPT ![e] = Append(@,
                    [event_sequence |-> canceller.event_sequence,
                     event_type |-> "CANCEL_REQUEST",
                     attempt_number |-> 1,
                     is_success |-> canceller.cancel_ok,
                     error_code |-> IF canceller.cancel_ok THEN Null ELSE "CANCEL_FAILED"])]
            /\ canceller' = [canceller EXCEPT !.pc = "skip_exec"]
    /\ UNCHANGED <<splitVars, order_slices, executions, worker, monitor, nOps, calls, lost>>

\* update_execution_status(execution['id'], 'SKIPPED')
can_skip_exec ==
    /\ canceller.pc = "skip_exec"
    /\ executions' = ExecutionUpdated(canceller.execution, "SKIPPED", Null, Null, None, Null, Null)
    /\ canceller' = [canceller EXCEPT !.pc = "skip_slice"]
    /\ UNCHANGED <<splitVars, order_slices, broker_events, worker, monitor, nOps, calls, lost>>

\* UPDATE order_slices SET status = 'SKIPPED' for the slice read as EXECUTING
can_skip_slice ==
    /\ canceller.pc = "skip_slice"
    /\ order_slices' = SliceUpdated(Head(canceller.todo).id, "SKIPPED", None)
    /\ canceller' = CancellerNext
    /\ UNCHANGED <<splitVars, executions, broker_events, worker, monitor, nOps, calls, lost>>

handle_order_cancellation ==
    \/ can_select_slices
    \/ can_skip_pending
    \/ can_get_execution
    \/ can_next_sequence
    \/ can_cancel_order
    \/ can_record
    \/ can_skip_exec
    \/ can_skip_slice

\* ------------------------------------------------------------------ time
Tick ==
    /\ order_slices' = [s \in DOMAIN order_slices |->
            [order_slices[s] EXCEPT !.scheduled_at = IF @ > 0 THEN @ - 1 ELSE @]]
    /\ executions' = [e \in DOMAIN executions |->
            [executions[e] EXCEPT !.executor_timeout_at = IF @ > -1 THEN @ - 1 ELSE @,
                                  !.executor_claimed_at = IF @ > -2 THEN @ - 1 ELSE @]]
    /\ UNCHANGED <<splitVars, broker_events, worker, monitor, canceller, nOps, calls, lost>>

\* ------------------------------------------------------------------ planner
MaxQ == 6             \* largest total_quantity
MaxN == 3             \* largest num_splits
MaxD == 2             \* largest duration_minutes
QtyVariance == 2      \* random.uniform(-0.2, 0.2), in tenths
TimeVariance == 3     \* base_interval_minutes * 0.3, in tenths

RECURSIVE SumSeq(_)
SumSeq(q) == IF q = <<>> THEN 0 ELSE Head(q) + SumSeq(Tail(q))

\* int(num / den): truncation toward zero
IntDiv(num, den) == IF num >= 0 THEN num \div den ELSE -((-num) \div den)

\* instants are counted from parent_created_at in units of 1/(10 (N - 1)) minute, so
\* that base_interval_minutes and its tenths are whole numbers
TimeScale(N) == 10 * (IF N > 1 THEN N - 1 ELSE 1)

\* time_window_end = parent_created_at + timedelta(minutes=duration_minutes)
WindowEnd(N, D) == D * TimeScale(N)

\* base_interval_minutes taken over num_splits, not num_splits - 1
BaseInterval_PerSlice(N, D) == IF N > 1 THEN (10 * D * (N - 1)) \div N ELSE 0

\* base_interval_minutes = duration_minutes / (num_splits - 1) if num_splits > 1 else 0.0
BaseInterval(N, D) == IF N > 1 THEN 10 * D ELSE 0

\* the draws of random.uniform for the quantities: one per slice but the last, and
\* none without randomize
QuantityDraws(N, randomize) ==
    IF randomize /\ N > 1 THEN [1..(N - 1) -> (-QtyVariance)..QtyVariance]
    ELSE {[i \in 1..(N - 1) |-> 0]}

\* the draws of random.uniform for the times: one per internal slice
TimeDraws(N, randomize) ==
    IF randomize /\ N > 1 THEN [2..(N - 1) -> (-TimeVariance)..TimeVariance]
    ELSE {[i \in 2..(N - 1) |-> 0]}

\* Step 1, a slice but the last: int(base_quantity * (1 + variance)), not below 0;
\* without randomize int(base_quantity)
Quantity(Q, N, randomize, k) ==
    IF randomize /\ N > 1
    THEN LET qty == IntDiv(Q * (10 + k), 10 * N) IN IF qty < 0 THEN 0 ELSE qty
    ELSE IntDiv(Q, N)

\* Step 1, the last slice: last_qty = total_quantity - sum(quantities)
LastQuantity_EqualShare(Q, N, quantities) == IntDiv(Q, N)

LastQuantity(Q, N, quantities) == Q - SumSeq(quantities)

\* the loop index taken from 1: the first slice one interval late
ScheduledTime_FromOne(N, D, randomize, i, j) ==
    LET base_time == (i + 1) * BaseInterval(N, D)
        scheduled_time == IF randomize /\ N > 1 /\ 0 < i /\ i < N - 1
                          THEN base_time + j * D
                          ELSE base_time
        not_before == IF scheduled_time < 0 THEN 0 ELSE scheduled_time
    IN IF not_before > WindowEnd(N, D) THEN WindowEnd(N, D) ELSE not_before

\* Step 2, slice i (from 0): base time, variance for internal slices, window clamp
ScheduledTime(N, D, randomize, i, j) ==
    LET base_time == i * BaseInterval(N, D)
        scheduled_time == IF randomize /\ N > 1 /\ 0 < i /\ i < N - 1
                          THEN base_time + j * D
                          ELSE base_time
        not_before == IF scheduled_time < 0 THEN 0 ELSE scheduled_time
    IN IF not_before > WindowEnd(N, D) THEN WindowEnd(N, D) ELSE not_before

\* calculate_split_schedule under the draws qd and td
calculate_split_schedule(Q, N, D, randomize, qd, td) ==
    IF N <= 0 \/ Q <= 0 \/ D < 0
    THEN [error |-> "ValueError", slices |-> <<>>]
    ELSE LET head == [i \in 1..(N - 1) |-> Quantity(Q, N, randomize, qd[i])]
             quantities == Append(head, LastQuantity(Q, N, head))
             slices == [i \in 1..N |->
                          [quantity |-> quantities[i],
                           sequence_number |-> i,
                           scheduled_at |-> ScheduledTime(N, D, randomize, i - 1,
                                                IF i \in DOMAIN td THEN td[i] ELSE 0)]]
         IN IF /\ SumSeq(quantities) = Q
               /\ \A i \in 1..N : /\ 0 <= slices[i].scheduled_at
                                  /\ slices[i].scheduled_at <= WindowEnd(N, D)
            THEN [error |-> "none", slices |-> slices]
            ELSE [error |-> "AssertionError", slices |-> <<>>]

NoPlan == [total_quantity |-> 1, num_splits |-> 1, duration_minutes |-> 0,
           randomize |-> FALSE, called |-> FALSE, error |-> "none", slices |-> <<>>]

\* what calculate_split_schedule can return for these arguments, over every draw
Schedules(Q, N, D, randomize) ==
    {calculate_split_schedule(Q, N, D, randomize, qd, td) :
        qd \in QuantityDraws(N, randomize), td \in TimeDraws(N, randomize)}

\* a caller applies the planner to its arguments
plan_call ==
    /\ ~plan.called
    /\ \E r \in Schedules(plan.total_quantity, plan.num_splits,
                          plan.duration_minutes, plan.randomize) :
        plan' = [plan EXCEPT !.called = TRUE, !.error = r.error, !.slices = r.slices]
    /\ UNCHANGED <<execVars, orders, splitter, api>>

\* ------------------------------------------------------------------ splitting worker
Splitters == {"p1", "p2"}     \* splitting worker processes
MaxOrderQty == 5              \* largest total_quantity of the order to split
MaxOrderSplits == 2           \* largest num_splits of the order to split
MaxOrderDuration == 1         \* largest duration_minutes of the order to split

IdleSplitter == [pc |-> "idle", batch |-> <<>>]

\* generate_order_slice_id(): fresh per record
SliceId(p, o, n) == <<p, o, n>>

SlicesOf(o) == {id \in DOMAIN order_slices : order_slices[id].order_id = o}

\* ORDER BY created_at ASC
RECURSIVE ByCreatedAt(_)
ByCreatedAt(S) ==
    IF S = {} THEN <<>>
    ELSE LET m == CHOOSE x \in S : \A y \in S : orders[x].created_at <= orders[y].created_at
         IN <<m>> \o ByCreatedAt(S \ {m})

PendingOrders == {o \in DOMAIN orders : orders[o].order_queue_status = "PENDING"}

\* UPDATE orders SET order_queue_status = $1, order_queue_skip_reason = $2 WHERE id = $3
OrderUpdated(o, status, skip_reason) ==
    [orders EXCEPT ![o] = [@ EXCEPT !.order_queue_status = status,
                                    !.order_queue_skip_reason = skip_reason]]

\* CONSTRAINT unique_order_sequence UNIQUE (order_id, sequence_number)
UniqueOrderSequenceViolated_NoConstraint(o, n) == FALSE

UniqueOrderSequenceViolated(o, n) ==
    \E id \in DOMAIN order_slices :
        order_slices[id].order_id = o /\ order_slices[id].sequence_number = n

\* the loop of process_single_order calls goes on, or the worker polls again
SplitterNext(p) ==
    [pc |-> IF Len(splitter[p].batch) > 1 THEN "in_progress" ELSE "idle",
     batch |-> Tail(splitter[p].batch)]

\* get_pending_orders: as for slices, the row locks end with the statement
get_pending_orders(p) ==
    /\ splitter[p].pc = "idle"
    /\ PendingOrders # {}
    /\ splitter' = [splitter EXCEPT ![p] =
            [pc |-> "in_progress", batch |-> Take(ByCreatedAt(PendingOrders), BatchSize)]]
    /\ UNCHANGED <<execVars, orders, plan, api>>

\* update_order_status(order_id, 'IN_PROGRESS')
mark_in_progress(p) ==
    /\ splitter[p].pc = "in_progress"
    /\ orders' = OrderUpdated(Head(splitter[p].batch), "IN_PROGRESS", Null)
    /\ splitter' = [splitter EXCEPT ![p].pc = "split"]
    /\ UNCHANGED <<execVars, plan, api>>

\* calculate_split_schedule, then create_order_slices_batch: all rows in one
\* transaction, refused as a whole by CHECK (quantity > 0) or by the UNIQUE constraint
\* (created_count is len(slices), which the planner made num_splits)
split_order(p) ==
    /\ splitter[p].pc = "split"
    /\ LET o == Head(splitter[p].batch)
           N == orders[o].num_splits
       IN \E r \in Schedules(orders[o].total_quantity, N, orders[o].duration_minutes,
                             orders[o].randomize) :
            IF \/ r.error # "none"
               \/ \E i \in 1..Len(r.slices) :
                    \/ r.slices[i].quantity <= 0
                    \/ UniqueOrderSequenceViolated(o, r.slices[i].sequence_number)
            THEN /\ splitter' = [splitter EXCEPT ![p].pc = "failed"]
                 /\ UNCHANGED order_slices
            ELSE /\ order_slices' = order_slices @@
                     [id \in {SliceId(p, o, i) : i \in 1..N} |->
                         [order_id |-> o, sequence_number |-> id[3],
                          quantity |-> r.slices[id[3]].quantity,
                          status |-> "PENDING",
                          scheduled_at |-> r.slices[id[3]].scheduled_at,
                          order_type |-> "MARKET", has_limit_price |-> FALSE,
                          filled_quantity |-> 0]]
                 /\ splitter' = [splitter EXCEPT ![p].pc = "complete"]
    /\ UNCHANGED <<executions, broker_events, worker, monitor, canceller, nOps, calls, lost,
                   orders, plan, api>>

\* mark_split_complete(order_id, created_count)
mark_split_complete(p) ==
    /\ splitter[p].pc = "complete"
    /\ orders' = [orders EXCEPT ![Head(splitter[p].batch)].order_queue_status = "COMPLETED"]
    /\ splitter' = [splitter EXCEPT ![p] = SplitterNext(p)]
    /\ UNCHANGED <<execVars, plan, api>>

\* mark_split_complete raises (asyncpg.PostgresError: the statement did not run); the
\* slices were committed by create_order_slices_batch
mark_split_complete_error(p) ==
    /\ splitter[p].pc = "complete"
    /\ splitter' = [splitter EXCEPT ![p].pc = "failed"]
    /\ UNCHANGED <<execVars, orders, plan, api>>

\* except Exception: update_order_status(order_id, 'FAILED', skip_reason=...)
mark_failed(p) ==
    /\ splitter[p].pc = "failed"
    /\ orders' = OrderUpdated(Head(splitter[p].batch), "FAILED", "Splitting error")
    /\ splitter' = [splitter EXCEPT ![p] = SplitterNext(p)]
    /\ UNCHANGED <<execVars, plan, api>>

SplitterStep(p) ==
    \/ get_pending_orders(p)
    \/ mark_in_progress(p)
    \/ split_order(p)
    \/ mark_split_complete(p)
    \/ mark_split_complete_error(p)
    \/ mark_failed(p)

\* ------------------------------------------------------------------ order submission
Requests == {"r1", "r2", "r3"}    \* requests to POST /internal/orders in flight
Keys == {"k1", "k2"}              \* values of order_unique_key

NoRequests == <<>>

\* order_unique_key VARCHAR(255) NOT NULL UNIQUE
UniqueOrderKeyViolated_NoConstraint(key) == FALSE

UniqueOrderKeyViolated(key) ==
    \E o \in DOMAIN orders : orders[o].order_unique_key = key

\* what the database answers to the INSERT (the tracing columns are left out of the rows)
InsertRefusal(key) ==
    IF UniqueOrderKeyViolated(key) THEN "UniqueViolationError" ELSE Null

\* generate_order_id(): 'ord' + timestamp + 12 hex characters, fresh per request
generate_order_id(r) ==
    /\ api[r].pc = "received"
    /\ api' = [api EXCEPT ![r].order_id = "ord" \o r, ![r].pc = "insert"]
    /\ UNCHANGED <<execVars, orders, splitter, plan>>

\* order_repo.create_order: one INSERT ... RETURNING *, with order_queue_status 'PENDING'
insert_order(r) ==
    /\ api[r].pc = "insert"
    /\ LET refusal == InsertRefusal(api[r].order_unique_key) IN
        /\ api' = [api EXCEPT ![r].error = refusal, ![r].pc = "respond"]
        /\ IF refusal = Null
           THEN orders' = orders @@
                    [o \in {api[r].order_id} |->
                        [total_quantity |-> SliceQty, num_splits |-> 1,
                         duration_minutes |-> 1, randomize |-> FALSE, created_at |-> 0,
                         order_queue_status |-> "PENDING",
                         order_queue_skip_reason |-> Null,
                         order_unique_key |-> api[r].order_unique_key]]
           ELSE UNCHANGED orders
    /\ UNCHANGED <<execVars, splitter, plan>>

\* the answer of create_order: 201, or the HTTPException of the except clause taken
\* (UniqueViolationError: 409; any other PostgresError: 500)
respond(r) ==
    /\ api[r].pc = "respond"
    /\ api' = [api EXCEPT
            ![r].pc = "done",
            ![r].status_code = IF api[r].error = Null THEN 201
                               ELSE IF api[r].error = "UniqueViolationError" THEN 409
                               ELSE 500,
            ![r].code = IF api[r].error = Null THEN Null
                        ELSE IF api[r].error = "UniqueViolationError"
                             THEN "DUPLICATE_ORDER_UNIQUE_KEY"
                        ELSE "DATABASE_ERROR"]
    /\ UNCHANGED <<execVars, orders, splitter, plan>>

create_order(r) ==
    \/ generate_order_id(r)
    \/ insert_order(r)
    \/ respond(r)

\* ------------------------------------------------------------------ specification
\* the execution stage before any worker has run, but for the slices
ExecQuiet ==
    /\ executions = <<>>
    /\ broker_events = [e \in Workers \X Slices |-> <<>>]
    /\ worker = [w \in Workers |-> IdleWorker]
    /\ monitor = [pc |-> "idle", todo |-> <<>>]
    /\ canceller = IdleCanceller(0)
    /\ nOps = [w \in Workers |-> [s \in Slices |-> 0]]
    /\ calls = [w \in Workers |-> [s \in Slices |-> 0]]
    /\ lost = {}

OrderRow(Q, N, D, randomize, status) ==
    [total_quantity |-> Q, num_splits |-> N, duration_minutes |-> D,
     randomize |-> randomize, created_at |-> 0,
     order_queue_status |-> status, order_queue_skip_reason |-> Null]

\* the execution stage: an order already split, its slices PENDING and not yet due
ExecInit ==
    /\ order_slices = [s \in Slices |->
            [order_id |-> TheOrder, sequence_number |-> s, quantity |-> SliceQty,
             status |-> "PENDING", scheduled_at |-> s,
             order_type |-> "MARKET", has_limit_price |-> FALSE,
             filled_quantity |-> 0]]
    /\ ExecQuiet
    /\ orders = [o \in {TheOrder} |->
            OrderRow(SliceQty * Cardinality(Slices), Cardinality(Slices), 1, FALSE, "COMPLETED")]
    /\ splitter = [p \in Splitters |-> IdleSplitter]
    /\ plan = NoPlan
    /\ api = NoRequests

Init == ExecInit

Next ==
    \/ \E w \in Workers : WorkerStep(w)
    \/ MonitorStep
    \/ handle_order_cancellation
    \/ Tick

Spec == Init /\ [][Next]_vars

\* the splitting stage: an order just accepted (the CHECKs of table orders hold), no slices
SplitInit ==
    /\ order_slices = <<>>
    /\ ExecQuiet
    /\ \E Q \in 1..MaxOrderQty : \E N \in 1..MaxOrderSplits : \E D \in 1..MaxOrderDuration :
      \E randomize \in BOOLEAN :
        orders = [o \in {TheOrder} |-> OrderRow(Q, N, D, randomize, "PENDING")]
    /\ splitter = [p \in Splitters |-> IdleSplitter]
    /\ plan = NoPlan
    /\ api = NoRequests

SplitNext == \E p \in Splitters : SplitterStep(p)

SplitSpec == SplitInit /\ [][SplitNext]_vars

\* the planner alone, on arguments of either kind: valid and refused
PlanInit ==
    /\ order_slices = <<>>
    /\ ExecQuiet
    /\ orders = <<>>
    /\ splitter = [p \in Splitters |-> IdleSplitter]
    /\ \E Q \in 0..MaxQ : \E N \in 0..MaxN : \E D \in (-1)..MaxD : \E randomize \in BOOLEAN :
        plan = [NoPlan EXCEPT !.total_quantity = Q, !.num_splits = N,
                              !.duration_minutes = D, !.randomize = randomize]
    /\ api = NoRequests

PlanNext == plan_call

PlanSpec == PlanInit /\ [][PlanNext]_vars

\* the API alone: requests received, each with its order_unique_key, on an empty table
SubmitInit ==
    /\ order_slices = <<>>
    /\ ExecQuiet
    /\ orders = <<>>
    /\ splitter = [p \in Splitters |-> IdleSplitter]
    /\ plan = NoPlan
    /\ api \in [Requests -> {[pc |-> "received", order_unique_key |-> k, order_id |-> Null,
                              error |-> Null, status_code |-> 0, code |-> Null] : k \in Keys}]

SubmitNext == \E r \in Requests : create_order(r)

SubmitSpec == SubmitInit /\ [][SubmitNext]_vars

\* ------------------------------------------------------------------ crashes and fairness
\* a worker process dies; at least one execution worker keeps running
Crash(w) ==
    /\ worker[w].alive
    /\ \E v \in Workers \ {w} : worker[v].alive
    /\ worker' = [worker EXCEPT ![w].alive = FALSE]
    /\ UNCHANGED <<splitVars, order_slices, executions, broker_events, monitor, canceller,
                   nOps, calls, lost>>

LiveNext ==
    \/ \E w \in Workers : WorkerStep(w)
    \/ \E w \in Workers : Crash(w)
    \/ MonitorStep
    \/ Tick

\* the fleet without a cancellation request: time passes, the monitor loop and every
\* worker that has not died keep taking their steps
LiveSpec ==
    /\ Init
    /\ [][LiveNext]_vars
    /\ WF_vars(Tick)
    /\ WF_vars(MonitorStep)
    /\ \A w \in Workers : WF_vars(WorkerStep(w))

\* ------------------------------------------------------------------ a splitter dies
EarlierOrder == "ord0"        \* an order split before, one of its slices claimed

\* a splitting worker process dies wherever it is; at least one keeps running
SplitCrash(p) ==
    /\ splitter[p].pc # "dead"
    /\ \E q \in Splitters \ {p} : splitter[q].pc # "dead"
    /\ splitter' = [splitter EXCEPT ![p].pc = "dead"]
    /\ UNCHANGED <<execVars, orders, plan, api>>

\* the background process: the splitting workers on a PENDING order and the timeout
\* monitor, which has an execution to recover (its execution worker is gone)
StuckInit ==
    /\ order_slices = (SliceId("p1", EarlierOrder, 1) :>
            [order_id |-> EarlierOrder, sequence_number |-> 1, quantity |-> SliceQty,
             status |-> "EXECUTING", scheduled_at |-> 0,
             order_type |-> "MARKET", has_limit_price |-> FALSE,
             filled_quantity |-> 0])
    /\ executions = (ExecId("w1", SliceId("p1", EarlierOrder, 1)) :>
            [slice_id |-> SliceId("p1", EarlierOrder, 1), executor_id |-> "w1",
             executor_claimed_at |-> 0,
             executor_timeout_at |-> TimeoutAt(0),
             execution_status |-> "CLAIMED",
             broker_order_id |-> Null, broker_order_status |-> Null,
             filled_quantity |-> 0, execution_result |-> Null,
             error_code |-> Null])
    /\ broker_events = [e \in Workers \X Slices |-> <<>>]
    /\ worker = [w \in Workers |-> [IdleWorker EXCEPT !.alive = FALSE]]
    /\ monitor = [pc |-> "idle", todo |-> <<>>]
    /\ canceller = IdleCanceller(0)
    /\ nOps = [w \in Workers |-> [s \in Slices |-> 0]]
    /\ calls = [w \in Workers |-> [s \in Slices |-> 0]]
    /\ lost = {}
    /\ \E Q \in 1..MaxOrderQty :
        orders = (TheOrder :> OrderRow(Q, MaxOrderSplits, MaxOrderDuration, FALSE, "PENDING"))
                 @@ (EarlierOrder :> OrderRow(SliceQty, 1, 1, FALSE, "COMPLETED"))
    /\ splitter = [p \in Splitters |-> IdleSplitter]
    /\ plan = NoPlan
    /\ api = NoRequests

StuckNext ==
    \/ \E p \in Splitters : SplitterStep(p)
    \/ \E p \in Splitters : SplitCrash(p)
    \/ MonitorStep
    \/ Tick

\* time passes, the monitor loop and every splitting worker that has not died keep
\* taking their steps
StuckSpec ==
    /\ StuckInit
    /\ [][StuckNext]_vars
    /\ WF_vars(Tick)
    /\ WF_vars(MonitorStep)
    /\ \A p \in Splitters : WF_vars(SplitterStep(p))

\* ------------------------------------------------------------------ slices of any order type
\* the execution workers on a due slice as the table allows it: MARKET or LIMIT, with
\* or without a limit_price (quantity > 0 is a CHECK of the table)
ValidateInit ==
    /\ \E type \in {"MARKET", "LIMIT"} : \E priced \in BOOLEAN :
        order_slices = [s \in Slices |->
            [order_id |-> TheOrder, sequence_number |-> s, quantity |-> SliceQty,
             status |-> "PENDING", scheduled_at |-> s - 1,
             order_type |-> type, has_limit_price |-> priced,
             filled_quantity |-> 0]]
    /\ ExecQuiet
    /\ orders = [o \in {TheOrder} |->
            OrderRow(SliceQty * Cardinality(Slices), Cardinality(Slices), 1, FALSE, "COMPLETED")]
    /\ splitter = [p \in Splitters |-> IdleSplitter]
    /\ plan = NoPlan
    /\ api = NoRequests

ValidateNext ==
    \/ \E w \in Workers : WorkerStep(w)
    \/ Tick

ValidateSpec == ValidateInit /\ [][ValidateNext]_vars

\* ------------------------------------------------------------------ after the workers
RestSlices == {1, 2}          \* slice ids of the order whose workers stop

\* an execution worker process dies, whoever else is running
Die(w) ==
    /\ worker[w].alive
    /\ worker' = [worker EXCEPT ![w].alive = FALSE]
    /\ UNCHANGED <<splitVars, order_slices, executions, broker_events, monitor, canceller,
                   nOps, calls, lost>>

Quiet == \A w \in Workers : ~worker[w].alive

\* one execution worker on an order of two slices, the first one due; once no worker
\* is left the timeout monitor makes its passes and the order is cancelled, twice in a row
RestInit ==
    /\ order_slices = [s \in RestSlices |->
            [order_id |-> TheOrder, sequence_number |-> s, quantity |-> SliceQty,
             status |-> "PENDING", scheduled_at |-> s - 1,
             order_type |-> "MARKET", has_limit_price |-> FALSE,
             filled_quantity |-> 0]]
    /\ executions = <<>>
    /\ broker_events = [e \in Workers \X RestSlices |-> <<>>]
    /\ worker = [w \in Workers |-> [IdleWorker EXCEPT !.alive = (w = "w1")]]
    /\ monitor = [pc |-> "idle", todo |-> <<>>]
    /\ canceller = IdleCanceller(MaxCancels - 2)
    /\ nOps = [w \in Workers |-> [s \in RestSlices |-> 0]]
    /\ calls = [w \in Workers |-> [s \in RestSlices |-> 0]]
    /\ lost = {}
    /\ orders = [o \in {TheOrder} |->
            OrderRow(SliceQty * Cardinality(RestSlices), Cardinality(RestSlices), 1, FALSE,
                     "COMPLETED")]
    /\ splitter = [p \in Splitters |-> IdleSplitter]
    /\ plan = NoPlan
    /\ api = NoRequests

RestNext ==
    \/ \E w \in Workers : WorkerStep(w)
    \/ \E w \in Workers : Die(w)
    \/ Tick
    \/ Quiet /\ MonitorStep
    \/ Quiet /\ handle_order_cancellation

RestSpec == RestInit /\ [][RestNext]_vars

\* ------------------------------------------------------------------ claims
ExecutionsOf(s) == {e \in DOMAIN executions : executions[e].slice_id = s}

Range(seq) == {seq[i] : i \in 1..Len(seq)}

\* C1: at most one execution row exists for any slice_id, so no two executions in
\* CLAIMED or PLACED share a slice_id
C1_OneExecutionPerSlice ==
    /\ \A s \in Slices : Cardinality(ExecutionsOf(s)) <= 1
    /\ \A e1, e2 \in DOMAIN executions :
        /\ e1 # e2
        /\ executions[e1].execution_status \in {"CLAIMED", "PLACED"}
        /\ executions[e2].execution_status \in {"CLAIMED", "PLACED"}
        => executions[e1].slice_id # executions[e2].slice_id

\* a second worker's insert for an already claimed slice has been refused
C1_Witness ==
    \E w \in Workers :
        /\ worker[w].pc = "err_exec"
        /\ ExecId(w, Cur(w)) \notin DOMAIN executions
        /\ ExecutionsOf(Cur(w)) # {}

\* C2: no slice is held by two workers at once: while one worker still has a slice
\* it selected, no other worker's select has returned it
C2_NoSharedPick ==
    \A w1, w2 \in Workers :
        w1 # w2 => Range(worker[w1].batch) \cap Range(worker[w2].batch) = {}

\* C3: at most one worker ever calls the broker's place operation for a slice, and
\* only a worker whose own execution insert for it succeeded
C3_OnePlacerPerSlice ==
    \A s \in Slices :
        /\ Cardinality({w \in Workers : calls[w][s] > 0}) <= 1
        /\ \A w \in Workers : calls[w][s] > 0 => ExecId(w, s) \in DOMAIN executions

\* two workers have acted on the same slice and one of them has placed it
C3_Witness ==
    \E s \in Slices : \E w1, w2 \in Workers :
        /\ w1 # w2
        /\ calls[w1][s] > 0
        /\ nOps[w2][s] > 0
        /\ worker[w2].pc = "idle"

\* C4: once execution_status is COMPLETED or SKIPPED no later write changes it
C4_TerminalStatusFrozen ==
    [][\A e \in DOMAIN executions :
        executions[e].execution_status \in {"COMPLETED", "SKIPPED"}
        => executions'[e].execution_status = executions[e].execution_status]_vars

\* C5: after a failed ownership verification the worker makes no further store
\* write and no further broker call for that execution or its slice
C5_NoActionAfterLoss ==
    [][\A w \in Workers : \A s \in Slices :
        <<w, s>> \in lost => nOps'[w][s] = nOps[w][s] /\ calls'[w][s] = calls[w][s]]_vars

\* a worker has lost its lease between two placement attempts and has returned
C5_Witness ==
    \E w \in Workers : \E s \in Slices :
        /\ <<w, s>> \in lost
        /\ calls[w][s] > 0
        /\ worker[w].pc = "idle"

Recovered(e) ==
    /\ e \in DOMAIN executions
    /\ executions[e].execution_status = "COMPLETED"
    /\ executions[e].execution_result = "EXECUTOR_TIMEOUT"
    /\ order_slices[executions[e].slice_id].status = "COMPLETED"

\* C6: a CLAIMED or PLACED execution whose worker has died is eventually COMPLETED
\* with EXECUTOR_TIMEOUT and its slice COMPLETED, with exactly one execution row for
\* the slice and no other worker having acted on the slice
C6_CrashRecovery ==
    \A w \in Workers : \A s \in Slices :
        (/\ ~worker[w].alive
         /\ ExecId(w, s) \in DOMAIN executions
         /\ executions[ExecId(w, s)].execution_status \in {"CLAIMED", "PLACED"})
        ~> (/\ Recovered(ExecId(w, s))
            /\ Cardinality(ExecutionsOf(s)) = 1
            /\ \A v \in Workers \ {w} : nOps[v][s] = 0)

\* C7: every due PENDING slice eventually reaches COMPLETED or SKIPPED
C7_DueSliceTerminates ==
    \A s \in Slices :
        (order_slices[s].status = "PENDING" /\ order_slices[s].scheduled_at <= 0)
        ~> (order_slices[s].status \in {"COMPLETED", "SKIPPED"})

RECURSIVE SumQuantity(_)
SumQuantity(S) ==
    IF S = {} THEN 0
    ELSE LET id == CHOOSE x \in S : TRUE
         IN order_slices[id].quantity + SumQuantity(S \ {id})

\* C8: an order never has more than num_splits slice rows, and while its queue
\* status is COMPLETED it has exactly num_splits rows whose quantities sum to
\* total_quantity, also when two splitting workers process the same order
C8_SliceRowsMatchOrder ==
    \A o \in DOMAIN orders :
        /\ Cardinality(SlicesOf(o)) <= orders[o].num_splits
        /\ orders[o].order_queue_status = "COMPLETED"
            => /\ Cardinality(SlicesOf(o)) = orders[o].num_splits
               /\ SumQuantity(SlicesOf(o)) = orders[o].total_quantity

\* a second splitting worker's batch for an order already split has been refused
C8_Witness ==
    \E p \in Splitters :
        /\ splitter[p].pc = "failed"
        /\ orders[Head(splitter[p].batch)].order_queue_status = "COMPLETED"
        /\ orders[Head(splitter[p].batch)].num_splits > 1
        /\ Cardinality(SlicesOf(Head(splitter[p].batch)))
                = orders[Head(splitter[p].batch)].num_splits

QueueStatusSteps ==
    {<<"PENDING", "IN_PROGRESS">>, <<"IN_PROGRESS", "COMPLETED">>,
     <<"IN_PROGRESS", "FAILED">>, <<"IN_PROGRESS", "SKIPPED">>}

\* C9: an order's queue status changes only along
\* PENDING -> IN_PROGRESS -> {COMPLETED, FAILED, SKIPPED}, so a splitting worker
\* never changes a status that is COMPLETED, FAILED or SKIPPED
C9_QueueStatusForwardOnly ==
    [][\A o \in DOMAIN orders :
        \/ orders'[o].order_queue_status = orders[o].order_queue_status
        \/ <<orders[o].order_queue_status, orders'[o].order_queue_status>>
                \in QueueStatusSteps]_vars

RECURSIVE SumPlanned(_, _)
SumPlanned(slices, n) ==
    IF n = 0 THEN 0 ELSE slices[n].quantity + SumPlanned(slices, n - 1)

\* C10: for valid arguments (Q > 0, N >= 1, D >= 0), either value of randomize and
\* every draw, the planner returns exactly N slices numbered 1..N whose quantities
\* sum to Q and whose scheduled_at lie in the closed window [t0, t0 + D]
C10_PlanPostconditions ==
    (/\ plan.called
     /\ plan.total_quantity > 0 /\ plan.num_splits >= 1 /\ plan.duration_minutes >= 0)
    => /\ plan.error = "none"
       /\ Len(plan.slices) = plan.num_splits
       /\ \A i \in 1..plan.num_splits : plan.slices[i].sequence_number = i
       /\ SumPlanned(plan.slices, plan.num_splits) = plan.total_quantity
       /\ \A i \in 1..plan.num_splits :
            /\ 0 <= plan.slices[i].scheduled_at
            /\ plan.slices[i].scheduled_at
                    <= WindowEnd(plan.num_splits, plan.duration_minutes)

\* a randomized plan of three or more slices whose draws moved a quantity and a time
C10_Witness ==
    /\ plan.called /\ plan.error = "none" /\ plan.randomize
    /\ plan.num_splits >= 3
    /\ plan.slices[1].quantity # IntDiv(plan.total_quantity, plan.num_splits)
    /\ plan.slices[2].scheduled_at # BaseInterval(plan.num_splits, plan.duration_minutes)

OrdersWithKey(k) == {o \in DOMAIN orders : orders[o].order_unique_key = k}

C12_SecondCancellationIdle ==
    [][canceller' # canceller /\ canceller'.runs = MaxCancels
       => /\ canceller'.pc = "idle"
          /\ UNCHANGED <<order_slices, executions, broker_events>>]_vars

\* the second application has returned after a first one that cancelled at the broker
\* and skipped a slice
C12_Witness ==
    /\ canceller.runs = MaxCancels
    /\ canceller.pc = "idle"
    /\ \E s \in DOMAIN order_slices : order_slices[s].status = "SKIPPED"
    /\ \E e \in DOMAIN executions :
        /\ executions[e].execution_status = "SKIPPED"
        /\ \E i \in 1..Len(broker_events[e]) :
            broker_events[e][i].event_type = "CANCEL_REQUEST"

\* C13: the timeout monitor run again after a pass finalizes each expired execution
\* once: a pass selects no execution that an earlier pass finalized, and the monitor
\* writes only the execution it is finalizing and that execution's slice
C13_FinalizedOnce ==
    [][monitor' # monitor
       => /\ monitor.pc = "idle" =>
                \A i \in 1..Len(monitor'.todo) :
                    executions[monitor'.todo[i].id].execution_result # "EXECUTOR_TIMEOUT"
          /\ \A e \in DOMAIN executions :
                executions'[e] # executions[e] => e = Head(monitor.todo).id
          /\ \A s \in DOMAIN order_slices :
                order_slices'[s] # order_slices[s] => s = Head(monitor.todo).slice_id]_vars

\* between two passes: the first pass has finalized an execution and its slice, the
\* execution is still past its timeout, and the next pass does not select it
C13_Witness ==
    /\ monitor.pc = "idle"
    /\ \E e \in DOMAIN executions :
        /\ executions[e].execution_status = "COMPLETED"
        /\ executions[e].execution_result = "EXECUTOR_TIMEOUT"
        /\ executions[e].executor_timeout_at < 0
        /\ order_slices[executions[e].slice_id].status = "COMPLETED"
        /\ e \notin TimedOut

C16_CancelAtBroker ==
    [][canceller' # canceller
       => /\ canceller'.pc = "next_sequence" =>
                /\ canceller.pc = "slice"
                /\ Head(canceller.todo).status = "EXECUTING"
                /\ executions[canceller'.execution].broker_order_id # Null
          /\ canceller'.pc = "cancel" <=> canceller.pc = "next_sequence"
          /\ canceller'.pc = "record" <=> canceller.pc = "cancel"
          /\ canceller.pc = "record" =>
                /\ canceller'.pc = "skip_exec"
                /\ \E ev \in Range(broker_events'[canceller.execution]) :
                    /\ broker_events'[canceller.execution]
                            = Append(broker_events[canceller.execution], ev)
                    /\ ev.event_type = "CANCEL_REQUEST"
                    /\ ev.is_success = canceller.cancel_ok
                    /\ ev.error_code = IF canceller.cancel_ok THEN Null ELSE "CANCEL_FAILED"
          /\ canceller.pc = "skip_exec" =>
                /\ canceller'.pc = "skip_slice"
                /\ executions'[canceller.execution].execution_status = "SKIPPED"
          /\ canceller.pc = "skip_slice" =>
                order_slices'[Head(canceller.todo).id].status = "SKIPPED"]_vars

\* the broker's cancel has failed; the failure is recorded and the execution and the
\* slice are SKIPPED all the same
C16_Witness ==
    /\ canceller.pc = "idle"
    /\ \E e \in DOMAIN executions :
        /\ executions[e].execution_status = "SKIPPED"
        /\ executions[e].broker_order_id # Null
        /\ order_slices[executions[e].slice_id].status = "SKIPPED"
        /\ broker_events[e] # <<>>
        /\ LET ev == broker_events[e][Len(broker_events[e])] IN
            /\ ev.event_type = "CANCEL_REQUEST"
            /\ ~ev.is_success
            /\ ev.error_code = "CANCEL_FAILED"

TodoIds(todo) == {todo[i].id : i \in 1..Len(todo)}

\* C17: the handler selects the PENDING and EXECUTING slices of the order; each slice
\* read as PENDING becomes SKIPPED with no broker call and no execution write; slices
\* already COMPLETED or SKIPPED are not selected, and a slice that was not selected,
\* its execution and its events are left as they were
C17_PendingSkippedRestUntouched ==
    [][canceller' # canceller
       => /\ canceller.pc = "idle" =>
                /\ TodoIds(canceller'.todo) =
                        {s \in DOMAIN order_slices :
                            order_slices[s].status \in {"PENDING", "EXECUTING"}}
                /\ \A i \in 1..Len(canceller'.todo) :
                        canceller'.todo[i].status = order_slices[canceller'.todo[i].id].status
          /\ canceller.pc = "slice" /\ Head(canceller.todo).status = "PENDING" =>
                /\ order_slices[Head(canceller.todo).id].status = "PENDING"
                /\ order_slices'[Head(canceller.todo).id].status = "SKIPPED"
                /\ canceller'.pc \in {"slice", "idle"}
                /\ UNCHANGED <<executions, broker_events>>
          /\ \A s \in DOMAIN order_slices \ TodoIds(canceller.todo) :
                /\ order_slices'[s] = order_slices[s]
                /\ \A e \in ExecutionsOf(s) :
                        /\ executions'[e] = executions[e]
                        /\ broker_events'[e] = broker_events[e]]_vars

\* the handler has returned: the slice that was PENDING is SKIPPED and has no
\* execution, the slice that was already COMPLETED and its execution are as the worker
\* left them, and no cancel was sent
C17_Witness ==
    /\ canceller.pc = "idle"
    /\ canceller.runs > MaxCancels - 2
    /\ \A e \in DOMAIN broker_events :
        \A i \in 1..Len(broker_events[e]) : broker_events[e][i].event_type # "CANCEL_REQUEST"
    /\ \E s1, s2 \in DOMAIN order_slices :
        /\ order_slices[s1].status = "COMPLETED"
        /\ \E e \in ExecutionsOf(s1) :
            /\ executions[e].execution_status = "COMPLETED"
            /\ executions[e].execution_result = "SUCCESS"
        /\ order_slices[s2].status = "SKIPPED"
        /\ ExecutionsOf(s2) = {}

\* the execution_result the specification gives for a final broker status
SpecifiedResult(status, filled, quantity) ==
    CASE status = "COMPLETE" -> IF filled = quantity THEN "SUCCESS" ELSE "PARTIAL_SUCCESS"
      [] status = "REJECTED" -> "BROKER_REJECTED"
      [] status = "CANCELLED" -> "PARTIAL_SUCCESS"
      [] status = "EXPIRED" -> "PARTIAL_SUCCESS"

\* C18: an execution that a worker finalized from a final broker status stores
\* SUCCESS for COMPLETE with the whole quantity filled, PARTIAL_SUCCESS for COMPLETE
\* with less, BROKER_REJECTED for REJECTED, PARTIAL_SUCCESS for CANCELLED and for EXPIRED
C18_ResultFromBrokerStatus ==
    \A e \in DOMAIN executions :
        /\ executions[e].execution_status = "COMPLETED"
        /\ executions[e].broker_order_status \in TerminalBroker
        /\ executions[e].execution_result # "EXECUTOR_TIMEOUT"
        => executions[e].execution_result =
                SpecifiedResult(executions[e].broker_order_status,
                                executions[e].filled_quantity,
                                order_slices[executions[e].slice_id].quantity)

\* C19: a place call that fails with an error that is not a network error (a
\* rejection) is not retried: the worker records one PLACE_ORDER event with is_success
\* false and error_code BROKER_REJECTED, which stays the last event of the execution,
\* no STATUS_POLL is recorded, and the worker then sets the execution COMPLETED with
\* BROKER_REJECTED and the slice COMPLETED with filled_quantity 0
C19_RejectionNotRetried ==
    [][\A w \in Workers :
        /\ worker'[w] # worker[w]
        /\ worker[w].resp.kind \notin {"none", "ok"}
        /\ ~IsNetworkError(worker[w].resp)
        => LET e == ExecId(w, Cur(w)) IN
           /\ worker[w].pc = "record_place" =>
                /\ worker'[w].pc = "err_exec"
                /\ \E ev \in Range(broker_events'[e]) :
                    /\ broker_events'[e] = Append(broker_events[e], ev)
                    /\ ev.event_type = "PLACE_ORDER"
                    /\ ~ev.is_success
                    /\ ev.error_code = "BROKER_REJECTED"
           /\ worker[w].pc \in {"err_exec", "err_slice"} =>
                /\ worker'[w].pc \notin {"verify", "place", "record_place"}
                /\ calls'[w] = calls[w]
                /\ broker_events' = broker_events
                /\ broker_events[e][Len(broker_events[e])].error_code = "BROKER_REJECTED"
                /\ Cardinality({i \in 1..Len(broker_events[e]) :
                        broker_events[e][i].error_code = "BROKER_REJECTED"}) = 1
                /\ \A i \in 1..Len(broker_events[e]) :
                        broker_events[e][i].event_type = "PLACE_ORDER"
           /\ worker[w].pc = "err_exec" =>
                /\ worker'[w].pc = "err_slice"
                /\ executions'[e].execution_status = "COMPLETED"
                /\ executions'[e].execution_result = "BROKER_REJECTED"
           /\ worker[w].pc = "err_slice" =>
                /\ order_slices'[Cur(w)].status = "COMPLETED"
                /\ order_slices'[Cur(w)].filled_quantity = 0]_vars

\* C20: an order that is IN_PROGRESS does not stay IN_PROGRESS forever: when its
\* splitting worker died after marking it, the timeout monitor marks it FAILED
C20_StuckOrderFails ==
    (orders[TheOrder].order_queue_status = "IN_PROGRESS")
        ~> (orders[TheOrder].order_queue_status # "IN_PROGRESS")

\* C21: without randomize the plan is a function of (Q, N, D): slices 1..N-1 get
\* floor(Q/N), slice N gets Q - (N-1) floor(Q/N), and slice i (from 0) is scheduled
\* at parent_created_at + i D/(N-1); Q = 100, N = 5, D = 60 gives five slices of 20
\* at 0, 15, 30, 45 and 60 minutes
C21_EqualPlanDeterministic ==
    /\ plan.called /\ ~plan.randomize /\ plan.error = "none" =>
        LET Q == plan.total_quantity
            N == plan.num_splits
            D == plan.duration_minutes
        IN /\ Cardinality(Schedules(Q, N, D, FALSE)) = 1
           /\ Len(plan.slices) = N
           /\ \A i \in 1..(N - 1) : plan.slices[i].quantity = Q \div N
           /\ plan.slices[N].quantity = Q - (N - 1) * (Q \div N)
           /\ \A i \in 1..N :
                plan.slices[i].scheduled_at * (N - 1) = (i - 1) * D * TimeScale(N)
    /\ Schedules(100, 5, 60, FALSE) =
         {[error |-> "none",
           slices |-> [i \in 1..5 |-> [quantity |-> 20, sequence_number |-> i,
                                       scheduled_at |-> (i - 1) * 15 * TimeScale(5)]]]}

C21_Witness ==
    /\ plan.called /\ ~plan.randomize /\ plan.error = "none"
    /\ plan.num_splits = MaxN /\ plan.duration_minutes = MaxD
    /\ plan.total_quantity % plan.num_splits # 0
    /\ plan.slices[plan.num_splits].quantity > plan.slices[1].quantity
    /\ plan.slices[2].scheduled_at > 0

\* C22: with or without randomize the first slice is scheduled exactly at
\* parent_created_at and, when N > 1, the last one exactly at parent_created_at + D;
\* when N = 1 the single slice has quantity Q and is scheduled at parent_created_at
C22_EndsNotJittered ==
    plan.called /\ plan.error = "none" =>
        LET N == plan.num_splits IN
        /\ plan.slices[1].scheduled_at = 0
        /\ N > 1 => plan.slices[N].scheduled_at = WindowEnd(N, plan.duration_minutes)
        /\ N = 1 => /\ Len(plan.slices) = 1
                    /\ plan.slices[1].quantity = plan.total_quantity

\* a randomized plan whose internal slice was moved off its base time
C22_Witness ==
    /\ plan.called /\ plan.error = "none" /\ plan.randomize
    /\ plan.num_splits = MaxN /\ plan.duration_minutes > 0
    /\ plan.slices[2].scheduled_at # BaseInterval(plan.num_splits, plan.duration_minutes)
    /\ plan.slices[1].scheduled_at = 0

\* C23: a worker whose execution insert was refused because another worker's row
\* exists for the slice (it has no execution row of its own) writes nothing more:
\* its steps leave the slice and every execution row as they are
C23_LoserAbandonsSlice ==
    [][\A w \in Workers :
        /\ worker'[w] # worker[w]
        /\ worker[w].pc \in {"err_exec", "err_slice"}
        /\ ExecId(w, Cur(w)) \notin DOMAIN executions
        /\ ExecutionsOf(Cur(w)) # {}
        => /\ order_slices'[Cur(w)] = order_slices[Cur(w)]
           /\ executions' = executions]_vars

C25_FinalizationAtomic ==
    \A w \in Workers : \A s \in Slices :
        (/\ ExecId(w, s) \in DOMAIN executions
         /\ executions[ExecId(w, s)].execution_status = "COMPLETED"
         /\ order_slices[s].status = "EXECUTING")
        ~> (order_slices[s].status # "EXECUTING")

\* C26: a slice whose status is COMPLETED or SKIPPED keeps that status in every
\* step of the execution workers, the timeout monitor and the cancellation handler
C26_SliceTerminalFrozen ==
    [][\A s \in DOMAIN order_slices :
        order_slices[s].status \in {"COMPLETED", "SKIPPED"}
        => order_slices'[s].status = order_slices[s].status]_vars

\* C27: once handle_order_cancellation has returned for the order, no execution
\* worker makes a broker call for any of its slices
C27_NoBrokerCallAfterCancellation ==
    [][(canceller.pc = "idle" /\ canceller.runs > 0) => calls' = calls]_vars

\* C28: an order whose splitting failed after it was marked IN_PROGRESS is FAILED
\* with a skip_reason and has no slice row in the store
C28_FailedOrderHasNoSlices ==
    \A o \in DOMAIN orders :
        orders[o].order_queue_status = "FAILED"
        => /\ orders[o].order_queue_skip_reason # Null
           /\ SlicesOf(o) = {}

\* C29: a step that moves a slice to COMPLETED leaves its filled_quantity equal to
\* the filled_quantity recorded on the slice's execution
C29_FillCopiedOnCompletion ==
    [][\A s \in DOMAIN order_slices :
        /\ order_slices[s].status # "COMPLETED"
        /\ order_slices'[s].status = "COMPLETED"
        => \A e \in DOMAIN executions' :
            executions'[e].slice_id = s
            => order_slices'[s].filled_quantity = executions'[e].filled_quantity]_vars

EventsOfType(e, type) ==
    {i \in 1..Len(broker_events[e]) : broker_events[e][i].event_type = type}

C31_RetryOnlyNetworkFailures ==
    [][\A w \in Workers :
        worker'[w] # worker[w] =>
        LET e == ExecId(w, Cur(w)) IN
        /\ \A s \in Slices : calls'[w][s] <= MaxAttempts
        /\ (worker[w].pc = "record_place" /\ worker'[w].pc = "verify") =>
                /\ IsNetworkError(worker[w].resp)
                /\ worker[w].attempt < MaxAttempts
        /\ (/\ worker[w].pc \in {"err_exec", "err_slice"}
            /\ IsNetworkError(worker[w].resp)
            /\ worker[w].attempt = MaxAttempts
            /\ calls[w][Cur(w)] = MaxAttempts) =>
                /\ worker[w].pc = "err_exec" =>
                        /\ executions'[e].execution_status = "COMPLETED"
                        /\ executions'[e].execution_result = "BROKER_REJECTED"
                /\ worker[w].pc = "err_slice" =>
                        order_slices'[Cur(w)].status = "COMPLETED"]_vars

\* C32: when the validation of a slice fails before placement no broker call is made
\* for it, and the worker that claimed it sets its execution COMPLETED with
\* VALIDATION_FAILED
C32_ValidationFailureResult ==
    [][\A w \in Workers :
        /\ \A s \in Slices : ValidationError(s) # "none" => calls'[w][s] = 0
        /\ (/\ worker'[w] # worker[w]
            /\ worker[w].pc = "err_exec"
            /\ ValidationError(Cur(w)) # "none"
            /\ ExecId(w, Cur(w)) \in DOMAIN executions) =>
                /\ executions'[ExecId(w, Cur(w))].execution_status = "COMPLETED"
                /\ executions'[ExecId(w, Cur(w))].execution_result = "VALIDATION_FAILED"]_vars

\* C33: after a placement answered with a non-terminal broker status the worker
\* polls the broker before it finalizes: it does not set the execution COMPLETED
\* unless a STATUS_POLL event is on record for it
C33_PollsBeforeFinalizing ==
    [][\A w \in Workers :
        LET e == ExecId(w, Cur(w)) IN
        /\ worker'[w] # worker[w]
        /\ worker[w].resp.kind = "ok"
        /\ worker[w].resp.status \notin TerminalBroker
        /\ e \in DOMAIN executions
        /\ executions[e].execution_status = "PLACED"
        /\ executions'[e].execution_status = "COMPLETED"
        => EventsOfType(e, "STATUS_POLL") # {}]_vars

\* C34: a worker that finalizes a placed order whose last known broker status is not
\* terminal (the monitoring timeout was reached) sets the execution COMPLETED with
\* PARTIAL_SUCCESS
C34_TimeoutFinalizesPartial ==
    [][\A w \in Workers :
        LET e == ExecId(w, Cur(w)) IN
        /\ worker'[w] # worker[w]
        /\ worker[w].resp.kind = "ok"
        /\ e \in DOMAIN executions
        /\ executions[e].execution_status = "PLACED"
        /\ executions[e].broker_order_status \notin TerminalBroker
        /\ executions'[e].execution_status = "COMPLETED"
        => executions'[e].execution_result = "PARTIAL_SUCCESS"]_vars

\* C35: verify_ownership succeeds exactly when the execution row exists, its
\* executor_id is the caller's and executor_timeout_at is strictly after now (it
\* fails when executor_timeout_at equals now)
C35_VerifiesStrictLease ==
    [][\A w \in Workers :
        worker[w].pc = "verify" /\ worker'[w] # worker[w]
        => LET e == ExecId(w, Cur(w)) IN
           (worker'[w].pc = "place"
            <=> /\ e \in DOMAIN executions
                /\ executions[e].executor_id = w
                /\ executions[e].executor_timeout_at > 0)]_vars

\* C36: whenever a slice is COMPLETED there is an execution row for that slice whose
\* execution_status is COMPLETED
C36_CompletedSliceHasCompletedExecution ==
    \A s \in DOMAIN order_slices :
        order_slices[s].status = "COMPLETED"
        => \E e \in DOMAIN executions :
            /\ executions[e].slice_id = s
            /\ executions[e].execution_status = "COMPLETED"

\* C37: workers never steal: no step changes the executor_id of an execution or
\* removes the row, and an execution is inserted only for a slice that has none,
\* also when the lease of the slice's execution has run out
C37_WorkersNeverSteal ==
    [][/\ \A e \in DOMAIN executions :
            /\ e \in DOMAIN executions'
            /\ executions'[e].executor_id = executions[e].executor_id
            /\ executions'[e].slice_id = executions[e].slice_id
       /\ \A e \in DOMAIN executions' \ DOMAIN executions :
            ExecutionsOf(executions'[e].slice_id) = {}]_vars

\* the lease of a slice's execution has run out and another worker's insert for
\* that slice has been refused
C37_Witness ==
    \E w \in Workers : \E e \in DOMAIN executions :
        /\ worker[w].pc = "err_exec"
        /\ ExecId(w, Cur(w)) \notin DOMAIN executions
        /\ executions[e].slice_id = Cur(w)
        /\ executions[e].executor_id # w
        /\ executions[e].executor_timeout_at < 0

\* C38: no slice is claimed or placed before its scheduled_at: every insert of an
\* execution and every broker place call for a slice happens when the slice's
\* scheduled_at is not after now
C38_NotBeforeScheduledAt ==
    [][/\ \A e \in DOMAIN executions' \ DOMAIN executions :
            order_slices[executions'[e].slice_id].scheduled_at <= 0
       /\ \A w \in Workers : \A s \in DOMAIN calls[w] :
            calls'[w][s] > calls[w][s] => order_slices[s].scheduled_at <= 0]_vars

\* a slice that was scheduled in the future at the start has been claimed and placed
C38_Witness ==
    \E w \in Workers : \E s \in DOMAIN calls[w] :
        /\ calls[w][s] > 0
        /\ ExecId(w, s) \in DOMAIN executions
        /\ order_slices[s].scheduled_at = 0

\* C39: for an accepted order (total_quantity >= num_splits >= 2) every slice quantity
\* the planner returns is above 0, under randomize for every draw
C39_PlannedQuantitiesPositive ==
    /\ plan.called
    /\ plan.error = "none"
    /\ plan.total_quantity >= plan.num_splits
    /\ plan.num_splits >= 2
    => \A i \in 1..Len(plan.slices) : plan.slices[i].quantity > 0

\* C40: executor_timeout_at is after executor_claimed_at on every execution row in
\* every reachable state
C40_TimeoutAfterClaim ==
    \A e \in DOMAIN executions :
        executions[e].executor_timeout_at > executions[e].executor_claimed_at

\* an execution claimed earlier whose lease a successful verification has renewed
C40_Witness ==
    \E e \in DOMAIN executions :
        /\ executions[e].executor_claimed_at < 0
        /\ executions[e].executor_timeout_at = TimeoutAt(0)
        /\ nOps[executions[e].executor_id][executions[e].slice_id] >= 2

====
